---- MODULE Spec2Model ----
(***************************************************************************)
(* A model of astral's Page (src/src/page.ts): the page-level waits        *)
(* (waitForNetworkIdle, waitForNavigation, goto, reload, waitForFunction), *)
(* evaluate's result unmarshalling, close() and the url the page tracks.   *)
(*                                                                         *)
(* One step of the model is one macrotask of the JavaScript event loop: a  *)
(* call by the user, the delivery of one protocol event, one timer firing, *)
(* or one RPC / HTTP response, together with every promise continuation    *)
(* (microtask) it triggers.  Time is discrete; Resolution ticks make one   *)
(* second, and a timer that is due fires before time advances further.     *)
(***************************************************************************)
EXTENDS Integers, Sequences, FiniteSets, TLC

\* ------------------------------------------------------------------ bounds

\* Ticks per second of the model's clock.
Resolution == 2
\* The most requests the browser has outstanding at once.
MaxRequests == 3
\* The largest idleConnections a caller passes to waitForNetworkIdle.
MaxThreshold == 2
\* The most close() calls made on the page.
MaxCloseCalls == 2

\* -------------------------------------------------------- program constants

\* Page.timeout, in milliseconds.
timeout == 10000
\* waitForNetworkIdle's default idleTime, in milliseconds.
DefaultIdleTime == 500
\* waitForNetworkIdle's default idleConnections.
DefaultIdleConnections == 0
\* The idleTime waitForNavigation passes for networkidle0 / networkidle2.
NavIdleTime == 500
\* The idleConnections waitForNavigation passes for networkidle2.
NetworkIdle2Connections == 2

\* An absent value: an option left undefined, a timer that is not armed.
None == 0 - 1

\* Milliseconds to ticks of the model's clock.
Ticks(ms) == (ms * Resolution) \div 1000

\* The idleTime values a caller passes (milliseconds), None for "not given".
IdleTimes == {None, DefaultIdleTime, 2 * DefaultIdleTime}
\* The idleConnections values a caller passes, None for "not given".
Thresholds == {None} \cup (0 .. MaxThreshold)
\* The options a caller passes to waitForNavigation / goto / reload:
\* "nooptions" is a call without the argument, "undefined" is an options
\* object whose waitUntil is not set.
NoOptions == "nooptions"
WaitForOptions == {NoOptions, "undefined", "load", "networkidle0", "networkidle2"}

\* The clock stops after both phases of a navigation wait could have timed out.
Horizon == 2 * Ticks(timeout) + 2

VARIABLES
    op,               \* the method the caller invoked, "none" before the call
    waitUntil,        \* options.waitUntil as waitForNavigation sees it
    optionsArg,       \* the options argument of waitForNavigation / goto / reload
    outcome,          \* the promise the call returned
    elapsed,          \* ticks since the call
    listeners,        \* the handlers registered on #celestial: <<type, handler>>
    netActive,        \* requests the browser has started and not yet finished
    loadWait,         \* waitForNavigation({waitUntil: "load"}): its promise
    loadDeadline,     \* ... and its deadline timer
    navWait,          \* the outer waitForNavigation of a non-load criterion
    navDeadline,      \* ... and its deadline timer
    idleWait,         \* waitForNetworkIdle: its promise
    idleDeadline,     \* ... and its deadline timer
    idleTime,         \* waitForNetworkIdle's idleTime, in ticks
    idleConnections,  \* waitForNetworkIdle's idleConnections
    inflight,         \* waitForNetworkIdle's counter
    timeoutHandle,    \* the timer the closure's `timeout` variable refers to
    staleTimers,      \* timers armed by the closure it no longer refers to
    rpc,              \* goto / reload: the navigation command's promise
    rpcDeadline,      \* ... and its deadline timer
    quietTicks,       \* history: ticks inflight has stayed <= idleConnections
    evalRpc,          \* evaluate: the Runtime.evaluate call's promise
    evalDeadline,     \* ... and its deadline timer
    evalResponse,     \* the response to the evaluate call the caller made
    evalResult,       \* what evaluate last returned or threw
    loop,             \* waitForFunction: its polling loop (the async closure)
    wffDeadline,      \* waitForFunction: its deadline timer
    pages,            \* #browser.pages
    celestialClosed,  \* #celestial.close() was called
    target,           \* the tab, as the browser's /json/close endpoint sees it
    closeCalls,       \* close() calls made so far
    closeResults,     \* the outcome of each completed close() call
    url,              \* #url
    lastFrame,        \* history: the frame of the last Page.frameNavigated event
    seenActive,       \* history of a pending waitForNetworkIdle() call: the requests
                      \* outstanding whose start event requestStarted was called for
    finishIgnored     \* history of a pending waitForNetworkIdle() call:
                      \* requestFinished has returned early at counter 0

waitVars == <<loadWait, loadDeadline, navWait, navDeadline>>
idleVars == <<idleWait, idleDeadline, idleTime, idleConnections, inflight,
              timeoutHandle, staleTimers, quietTicks>>
rpcVars == <<rpc, rpcDeadline>>
evalVars == <<evalRpc, evalDeadline, evalResponse, evalResult, loop, wffDeadline>>
closeVars == <<pages, celestialClosed, target, closeCalls, closeResults>>
otherVars == <<evalVars, closeVars>>
urlVars == <<url, lastFrame>>
netHistory == <<seenActive, finishIgnored>>

vars == <<op, waitUntil, optionsArg, outcome, elapsed, listeners, netActive, loadWait,
          loadDeadline, navWait, navDeadline, idleWait, idleDeadline, idleTime,
          idleConnections, inflight, timeoutHandle, staleTimers, rpc,
          rpcDeadline, quietTicks, evalRpc, evalDeadline, evalResponse,
          evalResult, loop, wffDeadline, pages, celestialClosed, target,
          closeCalls, closeResults, url, lastFrame, seenActive,
          finishIgnored>>

Rejected(p) == p \notin {"none", "pending", "resolved"}

\* ----------------------------------------------------- protocol client

\* Celestial.addEventListener: register handler h for events of `type`.
addEventListener(L, type, h) == L \cup {<<type, h>>}

\* Celestial.removeEventListener: drop the registration of h under `type`.
removeEventListener(L, type, h) == L \ {<<type, h>>}

\* The handlers an event of `type` is dispatched to.
Registered(type, h) == <<type, h>> \in listeners

\* ------------------------------------------------------ deadline executor

\* retryDeadline(p, ms) / deadline(p, ms): the timer armed for a pending wait.
DeadlineArm(ms) == Ticks(ms)

\* The wrapped operation settled first: its result verbatim.
DeadlineWon(p, result) == IF p = "pending" THEN result ELSE p

\* The timer fired first.
DeadlineLost(p) == IF p = "pending" THEN "DeadlineExceeded" ELSE p

\* Mutant of PromiseAll: the combined promise follows the first of the two to
\* settle, as Promise.race would.
PromiseRace(cur, a, b) ==
    IF cur # "pending" THEN cur
    ELSE IF a # "pending" THEN a
    ELSE b

\* Promise.all([a, b]) seen from its own promise `cur`.
PromiseAll(cur, a, b) ==
    IF cur # "pending" THEN cur
    ELSE IF Rejected(a) THEN a
    ELSE IF Rejected(b) THEN b
    ELSE IF a = "resolved" /\ b = "resolved" THEN "resolved"
    ELSE "pending"

\* ------------------------------------------------- waitForNetworkIdle

\* The closure state of one waitForNetworkIdle call.
Closure == [inflight |-> inflight, timeout |-> timeoutHandle, stale |-> staleTimers]

\* timeout = setTimeout(timeoutDone, idleTime): the variable now refers to the
\* new timer; a timer it referred to and never cleared stays armed.
setTimeout(c, delay) ==
    [c EXCEPT !.timeout = delay,
              !.stale = IF c.timeout # None THEN c.stale \cup {c.timeout} ELSE c.stale]

\* clearTimeout(timeout)
clearTimeout(c) == [c EXCEPT !.timeout = None]

\* Mutant of requestStarted: the armed timer is not cleared.
requestStartedNoClear(c, T) == [c EXCEPT !.inflight = @ + 1]

\* const requestStarted = () => { inflight++; if (inflight > idleConnections) clearTimeout(timeout) }
requestStarted(c, T) ==
    LET c1 == [c EXCEPT !.inflight = @ + 1]
    IN  IF c1.inflight > T THEN clearTimeout(c1) ELSE c1

\* Mutant of requestFinished: without the early return at counter 0.
requestFinishedUnguarded(c, T, delay) ==
    LET c1 == [c EXCEPT !.inflight = @ - 1]
    IN  IF c1.inflight = T THEN setTimeout(c1, delay) ELSE c1

\* Mutant of requestFinished: the timer is armed whenever the counter is at or
\* below the threshold after a finish.
requestFinishedRearm(c, T, delay) ==
    IF c.inflight = 0 THEN c
    ELSE LET c1 == [c EXCEPT !.inflight = @ - 1]
         IN  IF c1.inflight <= T THEN setTimeout(c1, delay) ELSE c1

\* const requestFinished = () => { if (inflight === 0) return; inflight--;
\*   if (inflight === idleConnections) timeout = setTimeout(timeoutDone, idleTime) }
requestFinished(c, T, delay) ==
    IF c.inflight = 0 THEN c
    ELSE LET c1 == [c EXCEPT !.inflight = @ - 1]
         IN  IF c1.inflight = T THEN setTimeout(c1, delay) ELSE c1

\* The three removeEventListener calls of timeoutDone.
timeoutDoneUnsubscribe(L) ==
    removeEventListener(
        removeEventListener(
            removeEventListener(L, "Network_requestWillBeSent", "requestStarted"),
            "Network_loadingFailed", "requestFinished"),
        "Network_loadingFinished", "requestFinished")

\* The three addEventListener calls that end the promise executor.
networkIdleSubscribe(L) ==
    addEventListener(
        addEventListener(
            addEventListener(L, "Network.requestWillBeSent", "requestStarted"),
            "Network.loadingFailed", "requestFinished"),
        "Network.loadingFinished", "requestFinished")

\* options?.idleTime ?? 500
IdleTimeOf(it) == IF it = None THEN DefaultIdleTime ELSE it

\* options?.idleConnections ?? 0
IdleConnectionsOf(ic) == IF ic = None THEN DefaultIdleConnections ELSE ic

\* Mutant of waitForNetworkIdle: the promise is returned without a deadline.
waitForNetworkIdleNoDeadline(L, it, ic) ==
    /\ idleTime' = Ticks(IdleTimeOf(it))
    /\ idleConnections' = IdleConnectionsOf(ic)
    /\ timeoutHandle' = Ticks(IdleTimeOf(it))
    /\ staleTimers' = {}
    /\ inflight' = 0
    /\ listeners' = networkIdleSubscribe(L)
    /\ idleWait' = "pending"
    /\ idleDeadline' = None

\* waitForNetworkIdle(options) called while the handlers L are registered.
waitForNetworkIdle(L, it, ic) ==
    /\ idleTime' = Ticks(IdleTimeOf(it))
    /\ idleConnections' = IdleConnectionsOf(ic)
    /\ timeoutHandle' = Ticks(IdleTimeOf(it))
    /\ staleTimers' = {}
    /\ inflight' = 0
    /\ listeners' = networkIdleSubscribe(L)
    /\ idleWait' = "pending"
    /\ idleDeadline' = DeadlineArm(timeout)

\* ------------------------------------------------- waitForNavigation

\* Mutant of NavWaitUntil: a call without options waits for the load event only.
NavWaitUntilLoad(options) == IF options = NoOptions THEN "load" ELSE options

\* options = options ?? { waitUntil: "networkidle2" }
NavWaitUntil(options) == IF options = NoOptions THEN "networkidle2" ELSE options

\* goto: options = options ?? {}
GotoOptions(options) == IF options = NoOptions THEN "undefined" ELSE options

\* The idleConnections option of the idle phase of criterion wu.
NavIdleConnections(wu) == IF wu = "networkidle0" THEN None ELSE NetworkIdle2Connections

\* Mutant of waitForNavigation: the call yields before the load-fired listener
\* is registered.
waitForNavigationYieldFirst(options) ==
    /\ waitUntil' = NavWaitUntil(options)
    /\ loadWait' = "pending"
    /\ loadDeadline' = DeadlineArm(timeout)
    /\ listeners' = listeners
    /\ navWait' = IF NavWaitUntil(options) # "load" THEN "awaitLoad" ELSE "none"
    /\ navDeadline' = None

\* waitForNavigation(options) up to its first suspension: under "load" the
\* load-fired listener and the deadline of the wait itself; under any other
\* criterion the same for the recursive waitForNavigation({waitUntil: "load"})
\* the call awaits first.
waitForNavigation(options) ==
    /\ waitUntil' = NavWaitUntil(options)
    /\ loadWait' = "pending"
    /\ loadDeadline' = DeadlineArm(timeout)
    /\ listeners' = addEventListener(listeners, "Page.loadEventFired", "callback")
    /\ navWait' = IF NavWaitUntil(options) # "load" THEN "awaitLoad" ELSE "none"
    /\ navDeadline' = None

\* Mutant of awaitLoad: a failed load wait is swallowed and the call goes on.
awaitLoadSwallow(navS, loadS) == IF navS # "awaitLoad" THEN navS ELSE "pending"

\* await this.waitForNavigation({ waitUntil: "load" }): the outer call once the
\* load wait has settled as loadS; it goes on to line 413 or fails as loadS did.
awaitLoad(navS, loadS) ==
    IF navS # "awaitLoad" THEN navS
    ELSE IF loadS = "resolved" THEN "pending"
    ELSE loadS

\* Mutant of callbackResolve: callback settles the wait again although it has
\* already timed out.
callbackResolveAgain(loadS) == "resolved"

\* callback's resolve(), seen from the promise of the load wait.
callbackResolve(loadS) == DeadlineWon(loadS, "resolved")

\* What the outermost waitForNavigation's promise is, from its parts.
NavResult(wu, loadS, navS) ==
    IF wu = "load" THEN loadS
    ELSE IF navS = "awaitLoad" THEN "pending" ELSE navS

\* The promise the caller holds, from the promises it is built of.
Settle(rpcS, loadS, navS, idleS) ==
    CASE op = "waitForNetworkIdle" -> idleS
      [] op = "waitForNavigation" -> NavResult(waitUntil, loadS, navS)
      [] op \in {"goto", "reload"} ->
            PromiseAll(outcome, rpcS, NavResult(waitUntil, loadS, navS))
      [] OTHER -> outcome

\* ------------------------------------------------------------ evaluate

\* What evaluate returns or throws: kind is "value" (a transported value, str
\* its JSON text), "bigint" (num), "undefined", "null" or "throw" (str says what).
Result(kind, num, str) == [kind |-> kind, num |-> num, str |-> str]
NoResult == Result("none", 0, "")
Undefined == Result("undefined", 0, "")
Null == Result("null", 0, "")
Throw(what) == Result("throw", 0, what)

\* The RemoteObject type tags, subtypes, values and unserializable values, and
\* the exception details, the browser answers Runtime.evaluate with.  A value
\* or exceptionDetails of "absent" is a field the response does not hold.
TypeTags == {"bigint", "undefined", "object", "number"}
Subtypes == {"absent", "null", "array"}
TransportedValues == {"absent", "0", "1"}
UnserializableValues == {<<"0", "n">>, <<"-", "4", "2", "n">>}
ExceptionDetails == {"absent", "Uncaught ReferenceError"}
EvalResponses ==
    [exceptionDetails : ExceptionDetails, type : TypeTags, subtype : Subtypes,
     value : TransportedValues, unserializableValue : UnserializableValues]
NoResponse ==
    [exceptionDetails |-> "absent", type |-> "none", subtype |-> "absent",
     value |-> "absent", unserializableValue |-> <<>>]

\* Mutant of SliceDropLast: the trailing marker is kept.
SliceKeepAll(s) == s

\* String.prototype.slice(0, -1)
SliceDropLast(s) == SubSeq(s, 1, Len(s) - 1)

Digits == <<"0", "1", "2", "3", "4", "5", "6", "7", "8", "9">>
DigitValue(ch) == (CHOOSE i \in 1 .. 10 : Digits[i] = ch) - 1
IsDigit(ch) == \E i \in 1 .. 10 : Digits[i] = ch

RECURSIVE DecimalValue(_)
DecimalValue(s) ==
    IF s = <<>> THEN 0
    ELSE 10 * DecimalValue(SubSeq(s, 1, Len(s) - 1)) + DigitValue(s[Len(s)])

\* BigInt(string): the integer a decimal literal denotes, a SyntaxError otherwise.
BigInt(s) ==
    LET neg == s # <<>> /\ s[1] = "-"
        digits == IF neg THEN Tail(s) ELSE s
    IN  IF (neg /\ digits = <<>>) \/ \E i \in 1 .. Len(digits) : ~IsDigit(digits[i])
        THEN Throw("SyntaxError")
        ELSE Result("bigint", IF neg THEN 0 - DecimalValue(digits) ELSE DecimalValue(digits), "")

\* return result.value
TransportedValue(v) == IF v = "absent" THEN Undefined ELSE Result("value", 0, v)

\* evaluate, from the response on (lines 278-292).
Unmarshal(r) ==
    IF r.exceptionDetails # "absent" THEN Throw(r.exceptionDetails)
    ELSE IF r.type = "bigint" THEN BigInt(SliceDropLast(r.unserializableValue))
    ELSE IF r.type = "undefined" THEN Undefined
    ELSE IF r.type = "object" /\ r.subtype = "null" THEN Null
    ELSE TransportedValue(r.value)

\* if (result): JavaScript's truthiness of what evaluate returned.
Truthy(res) ==
    CASE res.kind = "value" -> res.str \notin {"0", "false", "null"}
      [] res.kind = "bigint" -> res.num # 0
      [] OTHER -> FALSE

\* The rejection a thrown result settles the caller's promise with.
Rejection(res) ==
    IF res.str \in {"DeadlineExceeded", "SyntaxError"} THEN res.str
    ELSE "exceptionDetails"

\* --------------------------------------------------------------- close

\* The pages the Browser holds when the page is in use: this page and others.
InitialPages == {<<"a", "this", "b">>}

\* Array.prototype.indexOf: the first index (from 0) of x, -1 if there is none.
indexOf(arr, x) ==
    IF \E i \in 1 .. Len(arr) : arr[i] = x
    THEN (CHOOSE i \in 1 .. Len(arr) : arr[i] = x /\ \A j \in 1 .. i - 1 : arr[j] # x) - 1
    ELSE 0 - 1

\* Array.prototype.splice(index, 1); a negative index counts from the end.
splice1(arr, index) ==
    LET at == IF index < 0 THEN Len(arr) + index ELSE index
    IN  IF at < 0 \/ at >= Len(arr) THEN arr
        ELSE SubSeq(arr, 1, at) \o SubSeq(arr, at + 2, Len(arr))

\* Mutant of removeFromBrowser: the index is taken one too low.
removeFromBrowserOffByOne(arr) ==
    LET index == indexOf(arr, "this") - 1
    IN  IF index > 0 - 1 THEN splice1(arr, index) ELSE arr

\* const index = pages.indexOf(this); if (index > -1) pages.splice(index, 1)
removeFromBrowser(arr) ==
    LET index == indexOf(arr, "this")
    IN  IF index > 0 - 1 THEN splice1(arr, index) ELSE arr

\* The text GET /json/close/<id> answers with.
CloseText == IF target = "open" THEN "Target is closing" ELSE "No such target id"

\* new Error(`Page has already been closed or doesn't exist (${res})`)
CloseError(res) == <<"Page has already been closed or doesn't exist (", res, ")">>

\* close(), from the response text on: what it leaves of pages, whether it
\* closes #celestial, and how it ends.
closeAfterResponse(arr, res) ==
    IF res = "Target is closing"
    THEN [pages |-> removeFromBrowser(arr), closes |-> FALSE,
          status |-> "resolved", message |-> <<>>]
    ELSE [pages |-> arr, closes |-> TRUE,
          status |-> "Error", message |-> CloseError(res)]

\* ------------------------------------------------------------------ url

\* The url the constructor is given.
InitialUrl == "about:blank"

\* The frames Page.frameNavigated events carry; urlFragment is "absent" when
\* the event does not have one.
Frames == {[url |-> "/a", urlFragment |-> "absent"],
           [url |-> "/b", urlFragment |-> "/b#f"]}

\* No Page.frameNavigated event was delivered yet.
NoFrame == [url |-> "absent", urlFragment |-> "absent"]

\* Mutant of frameNavigated: the fragment is ignored.
frameNavigatedUrlOnly(frame) == frame.url

\* (e) => { const { frame } = e.detail; this.#url = frame.urlFragment ?? frame.url }
frameNavigated(frame) ==
    IF frame.urlFragment # "absent" THEN frame.urlFragment ELSE frame.url

\* The calls during which the model delivers Page.frameNavigated events.
FrameNavigatedOps == {"waitForNavigation", "waitForNetworkIdle", "close"}

\* --------------------------------------------------------------- Init

Init ==
    /\ op = "none"
    /\ waitUntil = "undefined"
    /\ optionsArg = NoOptions
    /\ outcome = "none"
    /\ elapsed = 0
    /\ listeners = {<<"Page.frameNavigated", "frameNavigated">>,
                    <<"Page.javascriptDialogOpening", "dialogOpening">>}
    /\ netActive = 0
    /\ loadWait = "none" /\ loadDeadline = None
    /\ navWait = "none" /\ navDeadline = None
    /\ idleWait = "none" /\ idleDeadline = None
    /\ idleTime = 0 /\ idleConnections = 0 /\ inflight = 0
    /\ timeoutHandle = None /\ staleTimers = {}
    /\ rpc = "none" /\ rpcDeadline = None
    /\ quietTicks = None
    /\ evalRpc = "none" /\ evalDeadline = None
    /\ evalResponse = NoResponse /\ evalResult = NoResult
    /\ loop = "none" /\ wffDeadline = None
    /\ pages \in InitialPages
    /\ celestialClosed = FALSE
    /\ target = "open"
    /\ closeCalls = 0
    /\ closeResults = <<>>
    /\ url = InitialUrl
    /\ lastFrame = NoFrame
    /\ seenActive = 0
    /\ finishIgnored = FALSE

\* ------------------------------------------------------------- calls

CallWaitForNetworkIdle ==
    \E it \in IdleTimes, ic \in Thresholds :
        /\ op = "none"
        /\ op' = "waitForNetworkIdle"
        /\ outcome' = "pending"
        /\ elapsed' = 0
        /\ waitForNetworkIdle(listeners, it, ic)
        /\ quietTicks' = 0
        /\ seenActive' = 0
        /\ finishIgnored' = FALSE
        /\ UNCHANGED <<urlVars, waitUntil, optionsArg, netActive, waitVars, rpcVars, otherVars>>

CallWaitForNavigation ==
    \E options \in WaitForOptions :
        /\ op = "none"
        /\ op' = "waitForNavigation"
        /\ outcome' = "pending"
        /\ elapsed' = 0
        /\ waitForNavigation(options)
        /\ optionsArg' = options
        /\ UNCHANGED <<urlVars, netHistory, netActive, idleVars, rpcVars, otherVars>>

\* goto(url, options): Page.navigate is sent, then waitForNavigation runs to
\* its first suspension, both before the caller yields.
CallGoto ==
    \E options \in WaitForOptions :
        /\ op = "none"
        /\ op' = "goto"
        /\ outcome' = "pending"
        /\ elapsed' = 0
        /\ rpc' = "pending"
        /\ rpcDeadline' = DeadlineArm(timeout)
        /\ waitForNavigation(GotoOptions(options))
        /\ optionsArg' = options
        /\ UNCHANGED <<urlVars, netHistory, netActive, idleVars, otherVars>>

\* reload(options): Page.reload is sent, then waitForNavigation(options).
CallReload ==
    \E options \in WaitForOptions \ {"undefined"}:
        /\ op = "none"
        /\ op' = "reload"
        /\ outcome' = "pending"
        /\ elapsed' = 0
        /\ rpc' = "pending"
        /\ rpcDeadline' = DeadlineArm(timeout)
        /\ waitForNavigation(options)
        /\ optionsArg' = options
        /\ UNCHANGED <<urlVars, netHistory, netActive, idleVars, otherVars>>

\* ---------------------------------------------------- protocol events

\* History only: the quiet window after a handler left the counter at n.
QuietAfter(n) ==
    IF idleWait # "pending" THEN quietTicks
    ELSE IF n > idleConnections THEN None
    ELSE IF quietTicks = None THEN 0
    ELSE quietTicks

\* The closure after a network event of `type` was dispatched to handler h.
Dispatch(type, h, after) == IF Registered(type, h) THEN after ELSE Closure

NetworkEvent(c) ==
    /\ inflight' = c.inflight
    /\ timeoutHandle' = c.timeout
    /\ staleTimers' = c.stale
    /\ quietTicks' = QuietAfter(c.inflight)
    /\ UNCHANGED <<urlVars, op, waitUntil, optionsArg, outcome, elapsed, listeners,
                   waitVars, rpcVars, idleWait, idleDeadline, idleTime,
                   idleConnections, otherVars>>

\* History is kept for the wait of a waitForNetworkIdle() call, while pending.
HistoryKept == op = "waitForNetworkIdle" /\ idleWait = "pending"

\* History only: the request a finish / fail event is about is one
\* whose start the wait has seen, or one that started before it subscribed;
\* requestFinished returns early when the counter is 0.
FinishedRequest ==
    /\ \/ /\ seenActive > 0
          /\ seenActive' = seenActive - 1
       \/ /\ netActive > seenActive
          /\ seenActive' = seenActive
    /\ finishIgnored' = (finishIgnored \/ (HistoryKept /\ inflight = 0))

\* Network.requestWillBeSent is delivered.
RequestWillBeSent ==
    /\ netActive < MaxRequests
    /\ netActive' = netActive + 1
    /\ seenActive' = IF HistoryKept THEN seenActive + 1 ELSE seenActive
    /\ UNCHANGED finishIgnored
    /\ NetworkEvent(Dispatch("Network.requestWillBeSent", "requestStarted",
                             requestStarted(Closure, idleConnections)))

\* Network.loadingFinished is delivered.
LoadingFinished ==
    /\ netActive > 0
    /\ netActive' = netActive - 1
    /\ FinishedRequest
    /\ NetworkEvent(Dispatch("Network.loadingFinished", "requestFinished",
                             requestFinished(Closure, idleConnections, idleTime)))

\* Network.loadingFailed is delivered.
LoadingFailed ==
    /\ netActive > 0
    /\ netActive' = netActive - 1
    /\ FinishedRequest
    /\ NetworkEvent(Dispatch("Network.loadingFailed", "requestFinished",
                             requestFinished(Closure, idleConnections, idleTime)))

\* const callback = () => { resolve(); removeEventListener("Page_loadEventFired", callback) }
loadCallbackUnsubscribe(L) == removeEventListener(L, "Page_loadEventFired", "callback")

\* Page.loadEventFired is delivered: callback runs; when it settles the load
\* wait an outer waitForNavigation resumes after its await and starts the idle
\* phase (the promise executor of lines 414-435 and its deadline).
LoadEventFired ==
    /\ op # "none"
    /\ IF Registered("Page.loadEventFired", "callback")
       THEN /\ loadWait' = callbackResolve(loadWait)
            /\ loadDeadline' = IF loadWait' = "pending" THEN loadDeadline ELSE None
            /\ IF loadWait = "pending" /\ loadWait' = "resolved" /\ navWait = "awaitLoad"
               THEN /\ navWait' = awaitLoad(navWait, loadWait')
                    /\ navDeadline' = DeadlineArm(timeout)
                    /\ waitForNetworkIdle(loadCallbackUnsubscribe(listeners),
                                          NavIdleTime, NavIdleConnections(waitUntil))
                    /\ quietTicks' = 0
                    /\ seenActive' = 0
                    /\ finishIgnored' = FALSE
               ELSE /\ listeners' = loadCallbackUnsubscribe(listeners)
                    /\ UNCHANGED <<navWait, navDeadline, idleVars, netHistory>>
       ELSE UNCHANGED <<listeners, waitVars, idleVars, netHistory>>
    /\ outcome' = Settle(rpc, loadWait', navWait', idleWait')
    /\ UNCHANGED <<urlVars, op, waitUntil, optionsArg, elapsed, netActive, rpcVars, otherVars>>

\* Page.frameNavigated is delivered to the constructor's listener.
FrameNavigated ==
    \E frame \in Frames :
        /\ op \in FrameNavigatedOps
        /\ IF Registered("Page.frameNavigated", "frameNavigated")
           THEN url' = frameNavigated(frame)
           ELSE UNCHANGED url
        /\ lastFrame' = frame
        /\ UNCHANGED <<netHistory, op, waitUntil, optionsArg, outcome, elapsed,
                       listeners, netActive, waitVars, idleVars, rpcVars, otherVars>>

\* ------------------------------------------------------------ timers

\* timeoutDone: an idle timer of the closure fires.
IdleTimerFires ==
    /\ \/ /\ timeoutHandle = 0
          /\ timeoutHandle' = None
          /\ UNCHANGED staleTimers
       \/ /\ 0 \in staleTimers
          /\ staleTimers' = staleTimers \ {0}
          /\ UNCHANGED timeoutHandle
    /\ listeners' = timeoutDoneUnsubscribe(listeners)
    /\ idleWait' = DeadlineWon(idleWait, "resolved")
    /\ idleDeadline' = IF idleWait = "pending" THEN None ELSE idleDeadline
    \* .then(() => { resolve() }) of waitForNavigation's idle phase
    /\ IF idleWait = "pending" /\ navWait = "pending"
       THEN /\ navWait' = "resolved"
            /\ navDeadline' = None
       ELSE UNCHANGED <<navWait, navDeadline>>
    /\ outcome' = Settle(rpc, loadWait, navWait', idleWait')
    /\ seenActive' = 0
    /\ finishIgnored' = FALSE
    /\ UNCHANGED <<urlVars, op, waitUntil, optionsArg, elapsed, netActive, loadWait,
                   loadDeadline, idleTime, idleConnections, inflight, quietTicks,
                   rpcVars, otherVars>>

\* The deadline of waitForNetworkIdle fires.
IdleDeadlineFires ==
    /\ idleDeadline = 0
    /\ idleDeadline' = None
    /\ idleWait' = DeadlineLost(idleWait)
    /\ outcome' = Settle(rpc, loadWait, navWait, idleWait')
    /\ seenActive' = 0
    /\ finishIgnored' = FALSE
    /\ UNCHANGED <<urlVars, op, waitUntil, optionsArg, elapsed, listeners, netActive,
                   waitVars, idleTime, idleConnections, inflight, timeoutHandle,
                   staleTimers, quietTicks, rpcVars, otherVars>>

\* The deadline of waitForNavigation({waitUntil: "load"}) fires; an outer
\* waitForNavigation awaiting it fails with the same error.  A timer created
\* earlier with the same delay (the command's) fires first.
LoadDeadlineFires ==
    /\ loadDeadline = 0
    /\ rpcDeadline # 0
    /\ loadDeadline' = None
    /\ loadWait' = DeadlineLost(loadWait)
    /\ navWait' = awaitLoad(navWait, DeadlineLost(loadWait))
    /\ outcome' = Settle(rpc, loadWait', navWait', idleWait)
    /\ UNCHANGED <<urlVars, netHistory, op, waitUntil, optionsArg, elapsed, listeners, netActive, navDeadline,
                   idleVars, rpcVars, otherVars>>

\* The deadline of the idle phase of waitForNavigation fires (after the one of
\* the waitForNetworkIdle it wraps, created before it with the same delay).
NavDeadlineFires ==
    /\ navDeadline = 0
    /\ idleDeadline # 0
    /\ navDeadline' = None
    /\ navWait' = DeadlineLost(navWait)
    /\ outcome' = Settle(rpc, loadWait, navWait', idleWait)
    /\ UNCHANGED <<urlVars, netHistory, op, waitUntil, optionsArg, elapsed, listeners, netActive, loadWait,
                   loadDeadline, idleVars, rpcVars, otherVars>>

\* The deadline of the navigation command fires.
RpcDeadlineFires ==
    /\ rpcDeadline = 0
    /\ rpcDeadline' = None
    /\ rpc' = DeadlineLost(rpc)
    /\ outcome' = Settle(rpc', loadWait, navWait, idleWait)
    /\ UNCHANGED <<urlVars, netHistory, op, waitUntil, optionsArg, elapsed, listeners, netActive, waitVars, idleVars,
                       otherVars>>

\* The browser answers Page.navigate / Page.reload, or the call fails.
RpcResponse ==
    \E result \in {"resolved", "RpcError"} :
        /\ rpc = "pending"
        /\ rpc' = DeadlineWon(rpc, result)
        /\ rpcDeadline' = None
        /\ outcome' = Settle(rpc', loadWait, navWait, idleWait)
        /\ UNCHANGED <<urlVars, netHistory, op, waitUntil, optionsArg, elapsed, listeners, netActive, waitVars, idleVars,
                       otherVars>>

\* ------------------------------------------- evaluate, waitForFunction

\* evaluate(func): Runtime.evaluate is sent under the page's deadline.
CallEvaluate ==
    /\ op = "none"
    /\ op' = "evaluate"
    /\ outcome' = "pending"
    /\ elapsed' = 0
    /\ evalRpc' = "pending"
    /\ evalDeadline' = DeadlineArm(timeout)
    /\ UNCHANGED <<urlVars, netHistory, waitUntil, optionsArg, listeners, netActive, waitVars, idleVars, rpcVars,
                   evalResponse, evalResult, loop, wffDeadline, closeVars>>

\* waitForFunction(func): the loop runs to its first evaluate, then the
\* deadline of the whole wait is armed.
CallWaitForFunction ==
    /\ op = "none"
    /\ op' = "waitForFunction"
    /\ outcome' = "pending"
    /\ elapsed' = 0
    /\ loop' = "running"
    /\ evalRpc' = "pending"
    /\ evalDeadline' = DeadlineArm(timeout)
    /\ wffDeadline' = DeadlineArm(timeout)
    /\ UNCHANGED <<urlVars, netHistory, waitUntil, optionsArg, listeners, netActive, waitVars, idleVars, rpcVars,
                   evalResponse, evalResult, closeVars>>

\* One turn of waitForFunction's loop, from evaluate having returned or
\* thrown res: "throw" (the loop ends with what evaluate threw), "return"
\* (res is truthy) or "again".
loopTurn(res) ==
    IF res.kind = "throw" THEN "throw"
    ELSE IF Truthy(res) THEN "return"
    ELSE "again"

\* evaluate has returned or thrown res, its call settled as `settled`: the
\* caller of evaluate is answered, or the loop of waitForFunction takes a turn.
AfterEvaluate(res, settled) ==
    IF op = "waitForFunction"
    THEN CASE loopTurn(res) = "throw" ->
                /\ loop' = "threw"
                /\ outcome' = DeadlineWon(outcome, Rejection(res))
                /\ wffDeadline' = None
                /\ evalRpc' = settled
                /\ evalDeadline' = None
           [] loopTurn(res) = "return" ->
                /\ loop' = "returned"
                /\ outcome' = DeadlineWon(outcome, "resolved")
                /\ wffDeadline' = None
                /\ evalRpc' = settled
                /\ evalDeadline' = None
           [] OTHER ->
                /\ evalRpc' = "pending"
                /\ evalDeadline' = DeadlineArm(timeout)
                /\ UNCHANGED <<loop, outcome, wffDeadline>>
    ELSE /\ outcome' = IF res.kind = "throw" THEN Rejection(res) ELSE "resolved"
         /\ evalRpc' = settled
         /\ evalDeadline' = None
         /\ UNCHANGED <<loop, wffDeadline>>

\* The browser answers Runtime.evaluate.
EvaluateResponse ==
    \E r \in EvalResponses :
        /\ evalRpc = "pending"
        /\ evalResponse' = IF op = "evaluate" THEN r ELSE evalResponse
        /\ evalResult' = Unmarshal(r)
        /\ AfterEvaluate(Unmarshal(r), "resolved")
        /\ UNCHANGED <<urlVars, netHistory, op, waitUntil, optionsArg, elapsed, listeners, netActive, waitVars,
                       idleVars, rpcVars, closeVars>>

\* The deadline of evaluate's Runtime.evaluate call fires: evaluate throws.
EvalDeadlineFires ==
    /\ evalDeadline = 0
    /\ evalResult' = Throw("DeadlineExceeded")
    /\ AfterEvaluate(Throw("DeadlineExceeded"), "DeadlineExceeded")
    /\ UNCHANGED <<urlVars, netHistory, op, waitUntil, optionsArg, elapsed, listeners, netActive, waitVars,
                   idleVars, rpcVars, evalResponse, closeVars>>

\* The deadline of waitForFunction fires; its loop is not stopped.
WffDeadlineFires ==
    /\ wffDeadline = 0
    /\ wffDeadline' = None
    /\ outcome' = DeadlineLost(outcome)
    /\ UNCHANGED <<urlVars, netHistory, op, waitUntil, optionsArg, elapsed, listeners, netActive, waitVars,
                   idleVars, rpcVars, evalRpc, evalDeadline, evalResponse,
                   evalResult, loop, closeVars>>

\* -------------------------------------------------------------- close

\* close(): GET /json/close/<id> is sent.
CallClose ==
    /\ op \in {"none", "close"}
    /\ outcome # "pending"
    /\ closeCalls < MaxCloseCalls
    /\ op' = "close"
    /\ outcome' = "pending"
    /\ closeCalls' = closeCalls + 1
    /\ UNCHANGED <<urlVars, netHistory, waitUntil, optionsArg, elapsed, listeners, netActive, waitVars, idleVars,
                   rpcVars, evalVars, pages, celestialClosed, target, closeResults>>

\* The response text arrives and close() runs to its end.
CloseResponse ==
    /\ op = "close"
    /\ outcome = "pending"
    /\ LET r == closeAfterResponse(pages, CloseText)
       IN  /\ pages' = r.pages
           /\ celestialClosed' = (celestialClosed \/ r.closes)
           /\ outcome' = r.status
           /\ closeResults' = Append(closeResults,
                                     [status |-> r.status, message |-> r.message,
                                      text |-> CloseText])
    /\ target' = "closed"
    /\ UNCHANGED <<urlVars, netHistory, op, waitUntil, optionsArg, elapsed, listeners, netActive, waitVars, idleVars,
                   rpcVars, evalVars, closeCalls>>

Due(t) == t = 0
Pass(t) == IF t > 0 THEN t - 1 ELSE t

Armed(t) == t # None

\* Time advances by one tick: some timer is armed and none is due.
Tick ==
    /\ elapsed < Horizon
    /\ \/ Armed(loadDeadline) \/ Armed(navDeadline) \/ Armed(idleDeadline)
       \/ Armed(rpcDeadline) \/ Armed(timeoutHandle) \/ staleTimers # {}
       \/ Armed(evalDeadline) \/ Armed(wffDeadline)
    /\ ~ \/ Due(loadDeadline) \/ Due(navDeadline) \/ Due(idleDeadline)
         \/ Due(rpcDeadline) \/ Due(timeoutHandle) \/ 0 \in staleTimers
         \/ Due(evalDeadline) \/ Due(wffDeadline)
    /\ elapsed' = elapsed + 1
    /\ loadDeadline' = Pass(loadDeadline)
    /\ navDeadline' = Pass(navDeadline)
    /\ idleDeadline' = Pass(idleDeadline)
    /\ rpcDeadline' = Pass(rpcDeadline)
    /\ timeoutHandle' = Pass(timeoutHandle)
    /\ staleTimers' = {Pass(t) : t \in staleTimers}
    /\ quietTicks' = IF idleWait = "pending" /\ quietTicks # None
                     THEN quietTicks + 1 ELSE quietTicks
    /\ evalDeadline' = Pass(evalDeadline)
    /\ wffDeadline' = Pass(wffDeadline)
    /\ UNCHANGED <<urlVars, netHistory, op, waitUntil, optionsArg, outcome, listeners, netActive, loadWait, navWait,
                   idleWait, idleTime, idleConnections, inflight, rpc, evalRpc,
                   evalResponse, evalResult, loop, closeVars>>

Next ==
    \/ CallWaitForNetworkIdle
    \/ CallWaitForNavigation
    \/ CallGoto
    \/ CallReload
    \/ RequestWillBeSent
    \/ LoadingFinished
    \/ LoadingFailed
    \/ LoadEventFired
    \/ FrameNavigated
    \/ IdleTimerFires
    \/ IdleDeadlineFires
    \/ LoadDeadlineFires
    \/ NavDeadlineFires
    \/ RpcDeadlineFires
    \/ RpcResponse
    \/ CallEvaluate
    \/ CallWaitForFunction
    \/ EvaluateResponse
    \/ EvalDeadlineFires
    \/ WffDeadlineFires
    \/ CallClose
    \/ CloseResponse
    \/ Tick

Spec == Init /\ [][Next]_vars

\* ================================================================ claims

NavigationOps == {"waitForNavigation", "goto", "reload"}
NetworkTypes == {"Network.requestWillBeSent", "Network.loadingFailed",
                 "Network.loadingFinished"}
IdleTimerDue == timeoutHandle = 0 \/ 0 \in staleTimers

\* C1: while waitForNetworkIdle is pending it resolves exactly when the
\* in-flight counter has stayed <= idleConnections for one continuous idleTime
\* window (quietTicks, restarted by every start event that drives the counter
\* above the threshold): a resolved wait has seen a full window, and a pending
\* wait never lets time pass beyond a full window - when the window is full
\* its timer is due.
C1_ResolvesIffQuietWindow ==
    /\ idleWait = "resolved" => (quietTicks # None /\ quietTicks >= idleTime)
    /\ idleWait = "pending" =>
          /\ inflight > idleConnections <=> quietTicks = None
          /\ quietTicks <= idleTime
          /\ quietTicks = idleTime => timeoutHandle = 0

\* C1's case: one start drives the counter above the threshold at t=0, its
\* finish comes one tick later, and the wait resolves idleTime after the finish.
C1_Witness ==
    /\ op = "waitForNetworkIdle"
    /\ idleWait = "resolved"
    /\ idleConnections = 0
    /\ quietTicks = idleTime
    /\ elapsed = idleTime + 1

\* C2: under a non-load criterion waitForNavigation never resolves before its
\* load sub-wait has: until then there is no idle wait, no idle timer and no
\* network handler, and a load sub-wait that fails with DeadlineExceeded fails
\* the whole wait without the idle phase ever starting.
C2_LoadBeforeIdle ==
    (op \in NavigationOps /\ waitUntil # "load") =>
        /\ navWait = "resolved" => loadWait = "resolved"
        /\ loadWait # "resolved" =>
              /\ idleWait = "none"
              /\ timeoutHandle = None /\ staleTimers = {}
              /\ \A l \in listeners : l[1] \notin NetworkTypes
              /\ navWait # "pending"
        /\ loadWait = "DeadlineExceeded" => navWait = "DeadlineExceeded"
        /\ (op = "waitForNavigation" /\ loadWait = "DeadlineExceeded")
              => outcome = "DeadlineExceeded"

\* C2's case: the load sub-wait of a networkidle2 wait timed out while the
\* network was idle all along, and the wait failed.
C2_Witness ==
    /\ op = "waitForNavigation"
    /\ waitUntil = "networkidle2"
    /\ netActive = 0
    /\ loadWait = "DeadlineExceeded"
    /\ outcome = "DeadlineExceeded"

\* C3: goto and reload resolve only once the command's acknowledgement and
\* waitForNavigation have both resolved, and fail when either of them fails.
C3_BothResolve ==
    op \in {"goto", "reload"} =>
        LET nav == NavResult(waitUntil, loadWait, navWait)
        IN  /\ outcome = "resolved" <=> (rpc = "resolved" /\ nav = "resolved")
            /\ (Rejected(rpc) \/ Rejected(nav)) => Rejected(outcome)
            /\ Rejected(outcome) => (outcome = rpc \/ outcome = nav)

\* C3's case: the navigation completed and the acknowledgement arrived.
C3_Witness ==
    /\ op = "goto"
    /\ waitUntil = "networkidle0"
    /\ outcome = "resolved"

\* C4: once a close() call has completed, on either outcome, the page's
\* protocol connection is closed.
C4_ClosedAfterClose ==
    closeResults # <<>> => celestialClosed

\* C5: of two close() calls the first succeeds and leaves the page out of the
\* Browser's collection, the second fails with a message that holds the
\* response text, and no other page is ever removed.
C5_CloseTwice ==
    /\ Len(closeResults) >= 1 =>
          /\ closeResults[1].status = "resolved"
          /\ \A i \in 1 .. Len(pages) : pages[i] # "this"
    /\ Len(closeResults) >= 2 =>
          /\ closeResults[2].status = "Error"
          /\ closeResults[2].text # "Target is closing"
          /\ \E i \in 1 .. Len(closeResults[2].message) :
                closeResults[2].message[i] = closeResults[2].text
    /\ SelectSeq(pages, LAMBDA x : x # "this") = <<"a", "b">>

\* C5's case: both calls have completed.
C5_Witness ==
    /\ Len(closeResults) = 2
    /\ closeResults[2].text = "No such target id"

\* C6: waitForFunction retries a poll whose evaluation reported an exception,
\* so it fails with DeadlineExceeded or not at all.
C6_OnlyDeadlineFailure ==
    op = "waitForFunction" => outcome \in {"pending", "resolved", "DeadlineExceeded"}

\* C7: waitForNetworkIdle always settles, and a timeout is never reported as
\* idle: while it is pending its deadline is armed and due one timeout after
\* the call; it resolves only by its idle timer firing with the counter at or
\* below the threshold, it fails only by that deadline, with DeadlineExceeded,
\* and a wait that failed stays failed whatever fires later.
C7_TimeoutIsFailure ==
    /\ [](op = "waitForNetworkIdle" /\ outcome = "pending" =>
            /\ idleDeadline # None
            /\ elapsed + idleDeadline = Ticks(timeout))
    /\ [][op = "waitForNetworkIdle" =>
            /\ (outcome = "pending" /\ outcome' = "resolved") =>
                  (IdleTimerDue /\ inflight <= idleConnections)
            /\ (outcome = "pending" /\ outcome' \notin {"pending", "resolved"}) =>
                  (outcome' = "DeadlineExceeded" /\ idleDeadline = 0)
            /\ outcome = "DeadlineExceeded" => outcome' = "DeadlineExceeded"]_vars

\* C7's case: the counter was above the threshold when the timeout elapsed.
C7_Witness ==
    /\ op = "waitForNetworkIdle"
    /\ outcome = "DeadlineExceeded"
    /\ inflight > idleConnections
    /\ elapsed = Ticks(timeout)

\* C8: a wait settles no later than one timeout after it was called.
C8_OneDeadline ==
    (op \in {"waitForNavigation", "waitForNetworkIdle", "waitForFunction"}
        /\ outcome = "pending") => elapsed <= Ticks(timeout)

\* The decimal literal of a natural number, and of an integer.
RECURSIVE NatLiteral(_)
NatLiteral(n) ==
    IF n < 10 THEN <<Digits[n + 1]>>
    ELSE NatLiteral(n \div 10) \o <<Digits[(n % 10) + 1]>>
IntLiteral(n) == IF n < 0 THEN <<"-">> \o NatLiteral(0 - n) ELSE NatLiteral(n)

\* C9: evaluate unmarshals in this precedence: an exception makes it fail with
\* the exception's details whatever the tags say; else type bigint yields the
\* integer whose literal, followed by the marker, is the unserializable value;
\* else type undefined yields undefined; else type object with subtype null
\* yields null; else the transported value is returned as it is.
C9_UnmarshalPrecedence ==
    (op = "evaluate" /\ evalRpc = "resolved") =>
        LET r == evalResponse
            res == evalResult
        IN  IF r.exceptionDetails # "absent"
            THEN /\ res.kind = "throw" /\ res.str = r.exceptionDetails
                 /\ outcome = "exceptionDetails"
            ELSE /\ outcome = "resolved"
                 /\ IF r.type = "bigint"
                    THEN /\ res.kind = "bigint"
                         /\ IntLiteral(res.num) \o <<"n">> = r.unserializableValue
                    ELSE IF r.type = "undefined" THEN res.kind = "undefined"
                    ELSE IF r.type = "object" /\ r.subtype = "null" THEN res.kind = "null"
                    ELSE IF r.value = "absent" THEN res.kind = "undefined"
                    ELSE res.kind = "value" /\ res.str = r.value

\* C9's case: a response tagged bigint that also reports an exception.
C9_Witness ==
    /\ op = "evaluate"
    /\ evalRpc = "resolved"
    /\ evalResponse.exceptionDetails # "absent"
    /\ evalResponse.type = "bigint"
    /\ evalResult.kind = "throw"

\* C10: waitForNavigation({waitUntil: "load"}) resolves on the first load-fired
\* event delivered while it is pending, by nothing else, and its outcome, once
\* produced, is never changed by a later event or timer.
C10_LoadOneShot ==
    [][(op = "waitForNavigation" /\ waitUntil = "load") =>
          /\ (outcome = "pending" /\ LoadEventFired) => outcome' = "resolved"
          /\ (outcome = "pending" /\ outcome' = "resolved") => LoadEventFired
          /\ outcome # "pending" => outcome' = outcome]_vars

\* C10's case: the wait has resolved and its callback can still be reached by
\* a later load-fired event.
C10_Witness ==
    /\ op = "waitForNavigation"
    /\ waitUntil = "load"
    /\ outcome = "resolved"
    /\ Registered("Page.loadEventFired", "callback")

\* C11: the default criterion is networkidle2 on every entry path.  A
\* waitForNavigation / goto / reload call made without options, or with options
\* whose waitUntil is not set, waits for the load event first and then for
\* network idle with threshold 2 and a 500 ms window; "networkidle0" does the
\* same with threshold 0; only "load" ends with the load event.
C11_DefaultCriterion ==
    op \in NavigationOps =>
        /\ idleWait # "none" =>
                /\ optionsArg # "load"
                /\ loadWait = "resolved"
                /\ idleTime = Ticks(500)
                /\ idleConnections = IF optionsArg = "networkidle0" THEN 0 ELSE 2
        /\ (optionsArg # "load" /\ loadWait = "resolved") => idleWait # "none"
        /\ (optionsArg # "load" /\ outcome = "resolved") => idleWait = "resolved"

\* goto(url) without options has resolved after an idle phase of threshold 2.
C11_Witness ==
    /\ op = "goto" /\ optionsArg = NoOptions /\ outcome = "resolved"
    /\ idleWait = "resolved" /\ idleConnections = 2 /\ idleTime = Ticks(500)

\* C12: the page's url is the urlFragment of the most recently delivered
\* frame-navigated event when that event has one, otherwise that event's url
\* (last write wins); before any such event it is the url given at
\* construction; nothing else changes it.
C12_UrlLastWriteWins ==
    url = IF lastFrame = NoFrame THEN InitialUrl
          ELSE IF lastFrame.urlFragment # "absent" THEN lastFrame.urlFragment
          ELSE lastFrame.url

\* The last event carried a fragment, and the call went on afterwards.
C12_Witness ==
    /\ lastFrame # NoFrame /\ lastFrame.urlFragment # "absent"
    /\ url = lastFrame.urlFragment /\ url # lastFrame.url
    /\ op = "waitForNavigation" /\ outcome = "resolved"

IdleHandlers == {"requestStarted", "requestFinished"}

\* C13: when the idle timer fires and the wait resolves, the start, finish and
\* fail handlers are unsubscribed: once the wait has resolved none of them is
\* registered any more (so later network events cannot reach its counter or
\* arm a timer).
C13_ReleasedOnResolve ==
    idleWait = "resolved" =>
        \A type \in NetworkTypes, h \in IdleHandlers : ~Registered(type, h)

\* C14: the load wait is one-shot: once the load event has resolved it, its
\* load-fired handler is no longer registered.
C14_LoadHandlerReleased ==
    loadWait = "resolved" => ~Registered("Page.loadEventFired", "callback")

\* C15: a wait that failed with DeadlineExceeded has released what it
\* acquired: none of its handlers is registered and no idle timer of it is
\* armed.
C15_ReleasedOnTimeout ==
    /\ idleWait = "DeadlineExceeded" =>
            /\ \A type \in NetworkTypes, h \in IdleHandlers : ~Registered(type, h)
            /\ timeoutHandle = None
            /\ staleTimers = {}
    /\ loadWait = "DeadlineExceeded" => ~Registered("Page.loadEventFired", "callback")

\* C16: while a waitForNetworkIdle with threshold T is pending, at most one
\* idle timer is armed, and one is armed exactly when the counter is <= T;
\* an event that raises the counter above T cancels the timer, and a timer is
\* armed only by an event that lowers the counter to exactly T.
C16_TimerIffAtOrBelowThreshold ==
    /\ [](idleWait = "pending" =>
            /\ staleTimers = {}
            /\ (timeoutHandle # None) <=> (inflight <= idleConnections))
    /\ [][(idleWait = "pending" /\ idleWait' = "pending") =>
            /\ (inflight <= idleConnections /\ inflight' > idleConnections) =>
                  (timeoutHandle # None /\ timeoutHandle' = None)
            /\ (timeoutHandle = None /\ timeoutHandle' # None) =>
                  (inflight' = inflight - 1 /\ inflight' = idleConnections
                   /\ timeoutHandle' = idleTime)]_vars

\* The counter came back down to a threshold >= 1 after time had passed: the
\* timer armed by that finish event is running from its start.
C16_Witness ==
    /\ op = "waitForNetworkIdle" /\ idleWait = "pending"
    /\ idleConnections >= 1 /\ inflight = idleConnections
    /\ elapsed >= 1 /\ timeoutHandle = idleTime /\ staleTimers = {}

\* A finish or fail event is delivered to requestFinished in this step.
FinishDelivered ==
    /\ netActive' = netActive - 1
    /\ \E type \in {"Network.loadingFinished", "Network.loadingFailed"} :
            Registered(type, "requestFinished")

\* C17: the in-flight counter is never negative; a finish or fail event
\* delivered while it is 0 leaves the counter and the timer as they were.
C17_CounterNeverNegative ==
    /\ [](inflight >= 0)
    /\ [][(FinishDelivered /\ inflight = 0) =>
            /\ inflight' = 0
            /\ timeoutHandle' = timeoutHandle
            /\ staleTimers' = staleTimers]_vars

\* A request that was outstanding when the wait subscribed has finished: its
\* finish event met the counter at 0 and the timer still runs from the call.
C17_Witness ==
    /\ op = "waitForNetworkIdle" /\ idleWait = "pending"
    /\ elapsed = 0 /\ netActive = 0 /\ inflight = 0
    /\ finishIgnored /\ timeoutHandle = idleTime

\* C18: in goto and reload, under every criterion, the load-fired listener is
\* registered before any event that follows the sending of the command can be
\* delivered: whenever the command has been sent and the load wait is pending
\* the listener is registered, so a load-fired event delivered then resolves
\* the load wait.
C18_ListenerBeforeEvents ==
    /\ [](op \in {"goto", "reload"} =>
            /\ rpc # "none"
            /\ loadWait # "none"
            /\ loadWait = "pending" => Registered("Page.loadEventFired", "callback"))
    /\ [][(op \in {"goto", "reload"} /\ loadWait = "pending" /\ LoadEventFired) =>
            loadWait' = "resolved"]_vars

\* The load event was delivered right after the command was sent, before the
\* browser answered it, and the load wait caught it.
C18_Witness ==
    /\ op \in {"goto", "reload"} /\ rpc = "pending" /\ elapsed = 0
    /\ loadWait = "resolved"

\* C19: once waitForFunction has failed with DeadlineExceeded its loop issues
\* no further Runtime.evaluate call (a call being issued shows as a pending
\* call whose deadline timer was armed anew).
C19_LoopStopsAfterDeadline ==
    [][(op = "waitForFunction" /\ outcome = "DeadlineExceeded") =>
            ~(evalRpc' = "pending" /\ evalDeadline' > evalDeadline)]_vars

\* C20: while a waitForNetworkIdle is pending its counter equals the number of
\* requests whose start event was delivered to this wait and whose finish or
\* fail event has not been delivered yet; the finish of a request that started
\* before the wait subscribed does not lower it.
C20_CounterCountsSeenRequests ==
    (op = "waitForNetworkIdle" /\ idleWait = "pending") => inflight = seenActive

====
